---- MODULE Spec2Model ----
(***************************************************************************)
(* Model of the diffraction simulator of deepKNet                          *)
(* (data_gen/diffraction_simulator/XRD_simulator.py, XRDSimulator: Spec)   *)
(* and of the dataset split of data_gen/gen_training.py                    *)
(* (generate_train_valid_test: SplitSpec).                                 *)
(*                                                                         *)
(* Numbers.  The program computes with floats; the model computes with     *)
(* integers and exact rationals:                                           *)
(*   - reciprocal lengths (g_hkl, min_r, max_r, 2/wavelength) are integers *)
(*     in ticks, TicksPerUnit ticks to one inverse angstrom;               *)
(*   - angles are whole degrees, obtained from the sine by the table       *)
(*     SinHalf (the model's asin);                                         *)
(*   - intensities are integers (electrons squared); a quotient of two     *)
(*     floats that the program returns (I / volume^2, y / (max / 100),     *)
(*     1 / g) is kept as an exact rational [n, d];                         *)
(*   - the literal 1e-4 and the two tolerances of the base class are       *)
(*     expressed in the model's units and widened to its resolution        *)
(*     (GTol, TWO_THETA_TOL, SCALED_INTENSITY_TOL below), so that values   *)
(*     below, at and above each of them occur.                             *)
(***************************************************************************)
EXTENDS Integers, Sequences, FiniteSets, TLC

\* ------------------------------------------------------------------------
\* Bounds of the model
\* ------------------------------------------------------------------------

\* Largest |h|, |k|, |l| the enumerator is asked for.  Init only admits
\* lattice / wavelength pairs whose limiting sphere holds no point beyond it.
MaxIndex == 1

\* Largest number of rows of a dataset handed to generate_train_valid_test.
MaxRows == 5

\* Largest index |h|, |k|, |l| the feature files are enumerated over.
MaxHKL == 4

\* ------------------------------------------------------------------------
\* Units and program constants
\* ------------------------------------------------------------------------

TicksPerUnit == 200

\* the literal 1e-4 of the origin filter, in ticks
GTol == 2

\* AbstractDiffractionPatternCalculator.TWO_THETA_TOL, in degrees of the model
TWO_THETA_TOL == 2

\* AbstractDiffractionPatternCalculator.SCALED_INTENSITY_TOL, in percent of the
\* model
SCALED_INTENSITY_TOL == 10

\* xrd.normalize(mode="max", value=100)
NormValue == 100

\* ------------------------------------------------------------------------
\* Arithmetic helpers
\* ------------------------------------------------------------------------

Abs(x) == IF x < 0 THEN -x ELSE x

Min2(a, b) == IF a < b THEN a ELSE b

\* integer square root (floor), the model's sqrt: the largest r in lo..hi
\* with r * r <= n, by bisection
RECURSIVE ISqrtIn(_, _, _)
ISqrtIn(n, lo, hi) ==
    IF lo >= hi THEN lo
    ELSE LET mid == (lo + hi + 1) \div 2
         IN  IF mid * mid <= n THEN ISqrtIn(n, mid, hi) ELSE ISqrtIn(n, lo, mid - 1)

ISqrt(n) == ISqrtIn(n, 0, 2048)

\* exact rationals
Rat(n, d) == [n |-> n, d |-> d]

RatEq(p, q) == p.n * q.d = q.n * p.d

RECURSIVE SumSeq(_)
SumSeq(s) == IF s = << >> THEN 0 ELSE Head(s) + SumSeq(Tail(s))

RECURSIVE SumSet(_, _)
SumSet(S, f) ==
    IF S = {} THEN 0
    ELSE LET x == CHOOSE y \in S : TRUE IN f[x] + SumSet(S \ {x}, f)

\* 100000 * sin(t / 2 degrees) for t = 0 .. 180: math.sin / math.asin /
\* math.radians / math.degrees in whole degrees of two theta
SinHalf ==
    << 0, 873, 1745, 2618, 3490, 4362, 5234, 6105, 6976, 7846, 8716, 9585,
       10453, 11320, 12187, 13053, 13917, 14781, 15643, 16505, 17365, 18224,
       19081, 19937, 20791, 21644, 22495, 23345, 24192, 25038, 25882, 26724,
       27564, 28402, 29237, 30071, 30902, 31730, 32557, 33381, 34202, 35021,
       35837, 36650, 37461, 38268, 39073, 39875, 40674, 41469, 42262, 43051,
       43837, 44620, 45399, 46175, 46947, 47716, 48481, 49242, 50000, 50754,
       51504, 52250, 52992, 53730, 54464, 55194, 55919, 56641, 57358, 58070,
       58779, 59482, 60182, 60876, 61566, 62251, 62932, 63608, 64279, 64945,
       65606, 66262, 66913, 67559, 68200, 68835, 69466, 70091, 70711, 71325,
       71934, 72537, 73135, 73728, 74314, 74896, 75471, 76041, 76604, 77162,
       77715, 78261, 78801, 79335, 79864, 80386, 80902, 81412, 81915, 82413,
       82904, 83389, 83867, 84339, 84805, 85264, 85717, 86163, 86603, 87036,
       87462, 87882, 88295, 88701, 89101, 89493, 89879, 90259, 90631, 90996,
       91355, 91706, 92050, 92388, 92718, 93042, 93358, 93667, 93969, 94264,
       94552, 94832, 95106, 95372, 95630, 95882, 96126, 96363, 96593, 96815,
       97030, 97237, 97437, 97630, 97815, 97992, 98163, 98325, 98481, 98629,
       98769, 98902, 99027, 99144, 99255, 99357, 99452, 99540, 99619, 99692,
       99756, 99813, 99863, 99905, 99939, 99966, 99985, 99996, 100000 >>

\* sin(t / 2 degrees), scaled by 100000
SinHalfDeg(t) == SinHalf[t + 1]

\* 1000 * exp(-x) for x = 0, 1/4, 2/4, ...: np.exp
ExpTab ==
    << 1000, 779, 607, 472, 368, 287, 223, 174, 135, 105, 82, 64, 50, 39,
       30, 24, 18, 14, 11, 9, 7, 5, 4, 3, 2, 2, 1, 1 >>

\* 1000 * exp(-xm / 1000)
ExpNeg(xm) == IF xm \div 250 < Len(ExpTab) THEN ExpTab[xm \div 250 + 1] ELSE 0

\* ------------------------------------------------------------------------
\* Static tables
\* ------------------------------------------------------------------------

\* the constant 41.78214 of the atomic scattering factor, times 100
MottBethe == 4178

\* sp.Z of the species the model uses
AtomicNumber == [H |-> 1, D |-> 1, He |-> 2, Li |-> 3]

\* ATOMIC_SCATTERING_PARAMS: symbol -> four <<a, b>> pairs, a in 1/100 and
\* b in 1/10.  "D" has no entry.
ATOMIC_SCATTERING_PARAMS ==
    [H  |-> << <<3, 5>>, <<6, 40>>, <<4, 120>>, <<1, 300>> >>,
     He |-> << <<4, 5>>, <<7, 30>>, <<5, 90>>, <<2, 200>> >>,
     Li |-> << <<8, 2>>, <<10, 30>>, <<30, 200>>, <<60, 900>> >>]

\* ------------------------------------------------------------------------
\* Inputs: structures (lattice, volume, sites), wavelength, flags
\* ------------------------------------------------------------------------

\* A lattice: lengths of the reciprocal axes in ticks (crystallographic
\* convention), hexagonal or orthorhombic, and the cell volume.
Lattices ==
    { [astar |-> 200, bstar |-> 200, cstar |-> 200, hex |-> FALSE, volume |-> 2],
      [astar |-> 150, bstar |-> 150, cstar |-> 150, hex |-> FALSE, volume |-> 3],
      [astar |-> 140, bstar |-> 141, cstar |-> 142, hex |-> FALSE, volume |-> 3],
      [astar |-> 150, bstar |-> 150, cstar |-> 120, hex |-> TRUE,  volume |-> 5],
      [astar |-> 80,  bstar |-> 80,  cstar |-> 100, hex |-> FALSE, volume |-> 7],
      [astar |-> 1,   bstar |-> 1,   cstar |-> 1,   hex |-> FALSE, volume |-> 9] }

\* A site: its species (symbol and occupancy in percent, one entry unless
\* the site is mixed) and its fractional coordinates in halves.
Site(sym, occ, frac) == [species |-> << [symbol |-> sym, occu |-> occ] >>, frac_coords |-> frac]

SiteLists ==
    { << Site("Li", 100, <<0, 0, 0>>) >>,
      << Site("Li", 100, <<0, 0, 0>>), Site("Li", 100, <<1, 1, 1>>) >>,
      << Site("Li", 100, <<0, 0, 0>>), Site("He", 100, <<1, 1, 1>>) >>,
      << Site("Li", 100, <<0, 0, 0>>), Site("H", 100, <<1, 0, 0>>) >>,
      << Site("Li", 100, <<0, 0, 0>>), Site("D", 100, <<1, 1, 0>>) >>,
      << Site("Li", 50, <<0, 0, 0>>) >>,
      << [species |-> << [symbol |-> "Li", occu |-> 50], [symbol |-> "He", occu |-> 50] >>,
          frac_coords |-> <<0, 0, 0>>] >> }

Structures == { [lattice |-> L, volume |-> L.volume, sites |-> S] : L \in Lattices, S \in SiteLists }

\* wavelength, given as a float, in angstrom
Wavelengths == {2, 4, 400}

\* WAVELENGTHS: name -> wavelength in angstrom, in the whole angstrom of the
\* model (CuKa 1.54184, CrKa 2.29100)
WAVELENGTHS == [CuKa |-> 2, CrKa |-> 2]

\* the wavelength argument of __init__: a float, or a string
FloatArg(v) == [float |-> TRUE, value |-> v, name |-> ""]

NameArg(n) == [float |-> FALSE, value |-> 0, name |-> n]

\* the floats, a name of the table and a name that is not in it
WavelengthArgs == { FloatArg(w) : w \in Wavelengths } \cup { NameArg("CuKa"), NameArg("XxKa") }

\* isinstance(wavelength, float) or wavelength in WAVELENGTHS
Supported(arg) == arg.float \/ arg.name \in DOMAIN WAVELENGTHS

\* the value __init__ stores in self.wavelength
Resolve(arg) == IF arg.float THEN arg.value ELSE WAVELENGTHS[arg.name]

\* symprec: 0, or a precision (in 1/10)
Symprecs == {0, 1}

\* SpacegroupAnalyzer(structure, symprec).get_refined_structure(): the
\* library returns the cell as it is, or with the axes made equal within the
\* precision; which of the two is the library's choice
Idealised(latt) ==
    IF latt.hex THEN latt ELSE [latt EXCEPT !.bstar = latt.astar, !.cstar = latt.astar]

Refinements(s) == { s, [s EXCEPT !.lattice = Idealised(s.lattice)] }

\* two_theta_range: None, or a pair of angles in degrees
NoRange == << >>

TwoThetaRanges == { NoRange, <<0, 90>>, <<90, 180>> }

\* ------------------------------------------------------------------------
\* Reciprocal lattice
\* ------------------------------------------------------------------------

HKLs == { <<h, k, l>> : h \in -MaxIndex..MaxIndex, k \in -MaxIndex..MaxIndex, l \in -MaxIndex..MaxIndex }

\* |h a* + k b* + l c*| in ticks (the angle between a* and b* is 60 degrees
\* for a hexagonal lattice, 90 degrees otherwise)
Dist(latt, hkl) ==
    ISqrt(hkl[1] * hkl[1] * latt.astar * latt.astar
          + hkl[2] * hkl[2] * latt.bstar * latt.bstar
          + hkl[3] * hkl[3] * latt.cstar * latt.cstar
          + (IF latt.hex THEN hkl[1] * hkl[2] * latt.astar * latt.bstar ELSE 0))

\* 2. / self.wavelength, in ticks
TwoOverWavelength(w) == (2 * TicksPerUnit) \div w

\* variant: the lower end of the range is not used
MinRFullSphere(w, range) == 0

\* min_r, max_r
MinR(w, range) ==
    IF range = NoRange THEN 0
    ELSE (2 * SinHalfDeg(range[1]) * TicksPerUnit) \div (100000 * w)

MaxR(w, range) ==
    IF range = NoRange THEN TwoOverWavelength(w)
    ELSE (2 * SinHalfDeg(range[2]) * TicksPerUnit) \div (100000 * w)

\* recip_latt.get_points_in_sphere([[0, 0, 0]], [0, 0, 0], max_r): the set
\* of points, each with its index triple and its distance from the origin
PointsInSphere(latt, r) ==
    { pt \in { [hkl |-> p, g |-> Dist(latt, p)] : p \in HKLs } : pt.g <= r }

\* No point of the lattice inside the sphere has an index beyond MaxIndex.
SphereWithinIndexRange(latt, r) ==
    /\ (MaxIndex + 1) * Min2(latt.astar, Min2(latt.bstar, latt.cstar)) > r
    /\ latt.hex => 3 * (MaxIndex + 1) * (MaxIndex + 1) * latt.astar * latt.astar > 4 * r * r

\* position of a point in the ascending order of the index triples; the
\* enumerator may return its points in this order or in the opposite one
LexKey(hkl) ==
    ((hkl[1] + MaxIndex) * (2 * MaxIndex + 1) + (hkl[2] + MaxIndex)) * (2 * MaxIndex + 1)
    + (hkl[3] + MaxIndex)

\* the index triple whose LexKey is i
HKLOfKey(i) ==
    << i \div ((2 * MaxIndex + 1) * (2 * MaxIndex + 1)) - MaxIndex,
       ((i \div (2 * MaxIndex + 1)) % (2 * MaxIndex + 1)) - MaxIndex,
       (i % (2 * MaxIndex + 1)) - MaxIndex >>

\* the points of S by ascending LexKey ("asc") or descending LexKey ("desc")
EnumSeq(S, order) ==
    LET n == (2 * MaxIndex + 1) * (2 * MaxIndex + 1) * (2 * MaxIndex + 1)
        hklAt(i) == HKLOfKey(IF order = "asc" THEN i - 1 ELSE n - i)
        kept == SelectSeq([i \in 1..n |-> i], LAMBDA i : \E pt \in S : pt.hkl = hklAt(i))
    IN  [j \in 1..Len(kept) |-> CHOOSE pt \in S : pt.hkl = hklAt(kept[j])]

\* recip_pts as returned by get_points_in_sphere and filtered by min_r
RecipPts(latt, w, range, order) ==
    LET pts == EnumSeq(PointsInSphere(latt, MaxR(w, range)), order)
    IN  IF MinR(w, range) # 0
        THEN SelectSeq(pts, LAMBDA pt : pt.g >= MinR(w, range))
        ELSE pts

\* ------------------------------------------------------------------------
\* sorted(recip_pts, key=lambda i: (i[1], -i[0][0], -i[0][1], -i[0][2]))
\* ------------------------------------------------------------------------

\* variant: no tie-break on the indices
SortKeyMagnitudeOnly(pt) == << pt.g >>

SortKey(pt) == << pt.g, -pt.hkl[1], -pt.hkl[2], -pt.hkl[3] >>

\* tuple comparison a < b of Python, for tuples of equal length
RECURSIVE TupleLess(_, _)
TupleLess(a, b) ==
    IF a = << >> THEN FALSE
    ELSE IF Head(a) # Head(b) THEN Head(a) < Head(b)
    ELSE TupleLess(Tail(a), Tail(b))

\* insert x behind every element whose key is not greater (stable)
RECURSIVE InsertSorted(_, _)
InsertSorted(s, x) ==
    IF s = << >> THEN <<x>>
    ELSE IF TupleLess(SortKey(x), SortKey(Head(s))) THEN <<x>> \o s
    ELSE <<Head(s)>> \o InsertSorted(Tail(s), x)

RECURSIVE SortedPts(_)
SortedPts(s) ==
    IF s = << >> THEN << >>
    ELSE InsertSorted(SortedPts(SubSeq(s, 1, Len(s) - 1)), s[Len(s)])

\* ------------------------------------------------------------------------
\* Intensity engine
\* ------------------------------------------------------------------------

\* 100000 * sin(theta) = 100000 * wavelength * g_hkl / 2
SinTheta(w, g) == (100000 * w * g) \div (2 * TicksPerUnit)

\* math.degrees(2 * math.asin(wavelength * g_hkl / 2)), in whole degrees
\* the largest t in lo..hi with sin(t / 2 degrees) <= x, by bisection
RECURSIVE ArcSinIn(_, _, _)
ArcSinIn(x, lo, hi) ==
    IF lo >= hi THEN lo
    ELSE LET mid == (lo + hi + 1) \div 2
         IN  IF SinHalfDeg(mid) <= x THEN ArcSinIn(x, mid, hi) ELSE ArcSinIn(x, lo, mid - 1)

TwoTheta(w, g) == ArcSinIn(SinTheta(w, g), 0, 180)

\* 10 * sin(theta)^2, 10 * cos(theta), 10 * cos(2 theta).  The float
\* cos(asin(1.0)) is a tiny positive number, not zero: the smallest positive
\* value of the scale stands for it.
Sin2Theta(w, g) == (w * g * w * g * 10) \div (4 * TicksPerUnit * TicksPerUnit)

CosTheta(w, g) ==
    LET c == ISqrt(100 - 10 * Sin2Theta(w, g)) IN IF c = 0 THEN 1 ELSE c

Cos2Theta(w, g) == 10 - 2 * Sin2Theta(w, g)

\* (1 + cos(2 theta)^2) / (sin(theta)^2 * cos(theta))
LorentzFactor(w, g) ==
    (100 + Cos2Theta(w, g) * Cos2Theta(w, g)) \div (Sin2Theta(w, g) * CosTheta(w, g))

\* s2 = (g_hkl / 2)^2, in 1/1000 of a square inverse angstrom
S2(g) == (g * g * 1000) \div (4 * TicksPerUnit * TicksPerUnit)

\* sum_i a_i * exp(-b_i * s2), in 1/100
RECURSIVE GaussSum(_, _)
GaussSum(coeff, s2) ==
    IF coeff = << >> THEN 0
    ELSE (Head(coeff)[1] * ExpNeg((Head(coeff)[2] * s2) \div 10)) \div 1000
         + GaussSum(Tail(coeff), s2)

\* variant: the angular term is left out, fs = Z
ScatteringFactorForward(z, coeff, s2) == z

\* fs = Z - 41.78214 * s2 * sum_i a_i * exp(-b_i * s2), one site
ScatteringFactor(z, coeff, s2) ==
    (z * 10000000 - MottBethe * s2 * GaussSum(coeff, s2)) \div 10000000

\* exp(2j * pi * g.r) for fractional coordinates in halves: +1 or -1
PhaseFactor(hkl, frac) ==
    IF (hkl[1] * frac[1] + hkl[2] * frac[2] + hkl[3] * frac[3]) % 2 = 0 THEN 1 ELSE -1

\* 100 * f_hkl = 100 * sum(fs * occus * exp(2j * pi * g_dot_r))
StructureFactor(hkl, g, Zs, Coeffs, Fcoords, Occus) ==
    SumSeq([j \in 1..Len(Zs) |->
              ScatteringFactor(Zs[j], Coeffs[j], S2(g)) * Occus[j] * PhaseFactor(hkl, Fcoords[j])])

\* i_hkl = (f_hkl * f_hkl.conjugate()).real
Intensity(hkl, g, Zs, Coeffs, Fcoords, Occus) ==
    (StructureFactor(hkl, g, Zs, Coeffs, Fcoords, Occus)
     * StructureFactor(hkl, g, Zs, Coeffs, Fcoords, Occus)) \div 10000

\* ------------------------------------------------------------------------
\* State
\* ------------------------------------------------------------------------

VARIABLES
    wavelength_arg,   \* argument of __init__
    symprec,          \* argument of __init__, kept as self.symprec
    structure,        \* argument of get_pattern, rebound to the refined structure
    refined,          \* what get_refined_structure() returns for the argument
    wavelength,       \* self.wavelength, 0 before __init__ has set it
    scale_intensity,  \* argument of get_pattern
    two_theta_range,  \* argument of get_pattern
    enum_order,       \* the order in which the enumerator returns its points
    pc,               \* "new" (before __init__), "rejected" (__init__ raised),
                      \* "start" (before get_pattern), "loop", "done" (returned),
                      \* "failed" (get_pattern raised), "idle" (no call)
    recip_pts,        \* recip_pts, after the min_r filter
    sorted_pts,       \* the sorted list the loop iterates over
    idx,              \* position of the loop in sorted_pts
    zs, coeffs, fcoords, occus,
    features,
    peaks,            \* two theta -> [intensity, hkls, d_hkl]
    two_thetas,
    printed,          \* the diagnostics printed so far
    error,            \* the exception raised, << >> if none
    ret,              \* the returned tuple, << >> before the return
    id_prop_all,      \* generate_train_valid_test: the rows of the dataset
    train_data, valid_data, test_data,
    split_pc,         \* position in generate_train_valid_test, "idle" if no call
    npoint,           \* generate_train_valid_test: the argument npoint
    mat_pos,          \* how many materials the point cloud loop has taken up
    selected_hkl_feat,
    saved_ids,        \* the materials whose point cloud has been saved
    split_error       \* the exception generate_train_valid_test raised, << >> if none

\* the variables of generate_train_valid_test
split_vars == << id_prop_all, train_data, valid_data, test_data, split_pc,
                 npoint, mat_pos, selected_hkl_feat, saved_ids, split_error >>

\* the variables of the point cloud loop of generate_train_valid_test
cloud_vars == << npoint, mat_pos, selected_hkl_feat, saved_ids, split_error >>

\* the variables of XRDSimulator
xrd_vars == << wavelength_arg, symprec, structure, refined, wavelength,
               scale_intensity, two_theta_range, enum_order,
               pc, recip_pts, sorted_pts, idx, zs, coeffs, fcoords, occus,
               features, peaks, two_thetas, printed, error, ret >>

vars == << xrd_vars, split_vars >>

\* the arguments of the two calls
arguments == << wavelength_arg, symprec, refined, scale_intensity, two_theta_range, enum_order >>

\* what the loop of get_pattern reads and does not write
inputs == << arguments, structure, wavelength >>

EmptyPeaks == [t \in {} |-> 0]

NoError == << >>

\* get_pattern(structure): the default arguments, and one order of the
\* enumerator.  A wavelength name and a non-zero symprec are tried with
\* these; a float wavelength with symprec = 0 is tried with every
\* combination of the arguments.
DefaultCall ==
    /\ scale_intensity
    /\ two_theta_range = NoRange
    /\ enum_order = "asc"

\* no call of generate_train_valid_test
SplitIdle ==
    /\ id_prop_all = << >>
    /\ train_data = << >>
    /\ valid_data = << >>
    /\ test_data = << >>
    /\ split_pc = "idle"
    /\ npoint = 0
    /\ mat_pos = 0
    /\ selected_hkl_feat = << >>
    /\ saved_ids = << >>
    /\ split_error = NoError

Init ==
    /\ wavelength_arg \in WavelengthArgs
    /\ symprec \in Symprecs
    /\ structure \in Structures
    /\ refined \in (IF symprec # 0 THEN Refinements(structure) ELSE {structure})
    /\ scale_intensity \in BOOLEAN
    /\ two_theta_range \in TwoThetaRanges
    /\ enum_order \in {"asc", "desc"}
    /\ Supported(wavelength_arg) =>
           SphereWithinIndexRange(refined.lattice, MaxR(Resolve(wavelength_arg), two_theta_range))
    /\ DefaultCall \/ (wavelength_arg.float /\ symprec = 0)
    /\ wavelength = 0
    /\ pc = "new"
    /\ recip_pts = << >>
    /\ sorted_pts = << >>
    /\ idx = 0
    /\ zs = << >>
    /\ coeffs = << >>
    /\ fcoords = << >>
    /\ occus = << >>
    /\ features = << >>
    /\ peaks = EmptyPeaks
    /\ two_thetas = << >>
    /\ printed = << >>
    /\ error = NoError
    /\ ret = << >>
    /\ SplitIdle

\* ------------------------------------------------------------------------
\* XRDSimulator.__init__
\* ------------------------------------------------------------------------

\* what WAVELENGTHS[wavelength] raises for a name it does not hold
WavelengthKeyError(name) == <<"KeyError", name>>

\* variant: an unknown name is reported by a print and the default is used
ConstructLenient ==
    /\ pc = "new"
    /\ pc' = "start"
    /\ wavelength' = IF Supported(wavelength_arg) THEN Resolve(wavelength_arg)
                     ELSE WAVELENGTHS["CuKa"]
    /\ printed' = IF Supported(wavelength_arg) THEN printed
                  ELSE Append(printed, "unsupported wavelength")
    /\ UNCHANGED << arguments, structure, recip_pts, sorted_pts, idx, zs, coeffs, fcoords,
                    occus, features, peaks, two_thetas, error, ret, split_vars >>

Construct ==
    /\ pc = "new"
    /\ IF Supported(wavelength_arg)
       THEN /\ wavelength' = Resolve(wavelength_arg)
            /\ pc' = "start"
            /\ error' = error
       ELSE /\ wavelength' = wavelength
            /\ pc' = "rejected"
            /\ error' = WavelengthKeyError(wavelength_arg.name)
    /\ UNCHANGED << arguments, structure, recip_pts, sorted_pts, idx, zs, coeffs, fcoords,
                    occus, features, peaks, two_thetas, printed, ret, split_vars >>

\* ------------------------------------------------------------------------
\* get_pattern, up to the loop over the reflections
\* ------------------------------------------------------------------------

MsgSymprec == "symprec is not zero, terminate the process and check your input.."

MsgRange == "two theta range is not None, terminate the process and check your input.."
MsgMixed == "mixed species at the same site detected, abort.."
MsgOccupancy == "check occupancy values..."
MsgIntensity == "assertion failed, check I_hkl values.."

NoScatteringError(sym) == <<"ValueError", "no scattering coefficients for", sym>>

\* variant: a species without coefficients is left out
RECURSIVE SpeciesLoopSkip(_, _, _)
SpeciesLoopSkip(species, frac, acc) ==
    IF species = << >> THEN acc
    ELSE LET sp == Head(species) IN
         IF sp.symbol \notin DOMAIN ATOMIC_SCATTERING_PARAMS
         THEN SpeciesLoopSkip(Tail(species), frac, acc)
         ELSE SpeciesLoopSkip(Tail(species), frac,
                  [acc EXCEPT !.zs = Append(@, AtomicNumber[sp.symbol]),
                              !.coeffs = Append(@, ATOMIC_SCATTERING_PARAMS[sp.symbol]),
                              !.fcoords = Append(@, frac),
                              !.occus = Append(@, sp.occu)])

\* for sp, occu in site.species.items(): one species of one site
RECURSIVE SpeciesLoop(_, _, _)
SpeciesLoop(species, frac, acc) ==
    IF species = << >> \/ acc.error # NoError THEN acc
    ELSE LET sp == Head(species) IN
         IF sp.symbol \notin DOMAIN ATOMIC_SCATTERING_PARAMS
         THEN [acc EXCEPT !.zs = Append(@, AtomicNumber[sp.symbol]),
                          !.error = NoScatteringError(sp.symbol)]
         ELSE SpeciesLoop(Tail(species), frac,
                  [acc EXCEPT !.zs = Append(@, AtomicNumber[sp.symbol]),
                              !.coeffs = Append(@, ATOMIC_SCATTERING_PARAMS[sp.symbol]),
                              !.fcoords = Append(@, frac),
                              !.occus = Append(@, sp.occu)])

\* for site in structure
RECURSIVE SiteLoop(_, _)
SiteLoop(sites, acc) ==
    IF sites = << >> \/ acc.error # NoError THEN acc
    ELSE LET site == Head(sites)
             warned == IF Len(site.species) = 1 THEN acc
                       ELSE [acc EXCEPT !.printed = Append(@, MsgMixed)]
         IN  SiteLoop(Tail(sites), SpeciesLoop(site.species, site.frac_coords, warned))

\* np.max(occus) == np.min(occus) == 1
AllSinglyOccupied(Occus) == Occus # << >> /\ \A j \in 1..Len(Occus) : Occus[j] = 100

\* variant: the quotient is not squared as a whole, only the volume is
OriginRowUnsquared(Zs, volume) == << 0, 0, 0, Rat(SumSeq(Zs), volume * volume) >>

\* features = [[0, 0, 0, float(total_electrons/volume)**2]]
OriginRow(Zs, volume) == << 0, 0, 0, Rat(SumSeq(Zs) * SumSeq(Zs), volume * volume) >>

Setup ==
    /\ pc = "start"
    /\ LET used == IF symprec # 0 THEN refined ELSE structure
           symprecPrinted == IF symprec = 0 THEN printed ELSE Append(printed, MsgSymprec)
           rangePrinted == IF two_theta_range = NoRange THEN symprecPrinted
                           ELSE Append(symprecPrinted, MsgRange)
           acc == SiteLoop(used.sites,
                           [zs |-> << >>, coeffs |-> << >>, fcoords |-> << >>,
                            occus |-> << >>, printed |-> rangePrinted, error |-> NoError])
           pts == RecipPts(used.lattice, wavelength, two_theta_range, enum_order)
       IN  /\ structure' = used
           /\ recip_pts' = pts
           /\ zs' = acc.zs
           /\ coeffs' = acc.coeffs
           /\ fcoords' = acc.fcoords
           /\ occus' = acc.occus
           /\ IF acc.error # NoError
              THEN /\ pc' = "failed"
                   /\ error' = acc.error
                   /\ printed' = acc.printed
                   /\ UNCHANGED << sorted_pts, idx, features >>
              ELSE /\ pc' = "loop"
                   /\ error' = NoError
                   /\ printed' = IF AllSinglyOccupied(acc.occus) THEN acc.printed
                                 ELSE Append(acc.printed, MsgOccupancy)
                   /\ features' = << OriginRow(acc.zs, used.volume) >>
                   /\ sorted_pts' = SortedPts(pts)
                   /\ idx' = 1
    /\ UNCHANGED << arguments, wavelength, peaks, two_thetas, ret, split_vars >>

\* ------------------------------------------------------------------------
\* The loop over the sorted reflections
\* ------------------------------------------------------------------------

\* variant: a difference equal to the tolerance merges too
PeakIndicesInclusive(tts, tt) == { i \in 1..Len(tts) : Abs(tts[i] - tt) <= TWO_THETA_TOL }

\* np.where(np.abs(np.subtract(two_thetas, two_theta)) < TWO_THETA_TOL):
\* the indices of the peaks within the tolerance
PeakIndices(tts, tt) == { i \in 1..Len(tts) : Abs(tts[i] - tt) < TWO_THETA_TOL }

\* ind[0][0]
FirstIndex(ind) == CHOOSE i \in ind : \A j \in ind : i <= j

\* variant: the 3-index is recorded whatever the lattice
PeakIndexTupleMiller(is_hex, hkl) == hkl

\* if is_hex: hkl = (hkl[0], hkl[1], - hkl[0] - hkl[1], hkl[2]); tuple(hkl)
PeakIndexTuple(is_hex, hkl) ==
    IF is_hex THEN << hkl[1], hkl[2], -hkl[1] - hkl[2], hkl[3] >> ELSE hkl

\* variant: only the exact origin is skipped
SkippedOriginOnly(w, g) == g <= 0 \/ g > TwoOverWavelength(w)

\* if (g_hkl < 1e-4) or (g_hkl > 2./self.wavelength): continue
Skipped(w, g) == g < GTol \/ g > TwoOverWavelength(w)

\* variant: the row holds the Lorentz-corrected intensity
FeatureRowLorentz(hkl, i_hkl, volume) ==
    << hkl[1], hkl[2], hkl[3],
       Rat(i_hkl * LorentzFactor(wavelength, sorted_pts[idx].g), volume * volume) >>

\* features.append([hkl[0], hkl[1], hkl[2], i_hkl_out])
FeatureRow(hkl, i_hkl, volume) == << hkl[1], hkl[2], hkl[3], Rat(i_hkl, volume * volume) >>

CurrentPt == sorted_pts[idx]

CurrentIntensity == Intensity(CurrentPt.hkl, CurrentPt.g, zs, coeffs, fcoords, occus)

InLoop == pc = "loop" /\ idx <= Len(sorted_pts)

SkipPoint ==
    /\ InLoop
    /\ Skipped(wavelength, CurrentPt.g)
    /\ idx' = idx + 1
    /\ UNCHANGED << inputs, split_vars, pc, recip_pts, sorted_pts, zs, coeffs, fcoords, occus,
                    features, peaks, two_thetas, printed, error, ret >>

\* the part of an iteration that both branches of the merge share
Reflect ==
    /\ InLoop
    /\ ~Skipped(wavelength, CurrentPt.g)
    /\ printed' = IF CurrentIntensity < SumSeq(zs) * SumSeq(zs) THEN printed
                  ELSE Append(printed, MsgIntensity)
    /\ features' = Append(features, FeatureRow(CurrentPt.hkl, CurrentIntensity, structure.volume))
    /\ idx' = idx + 1
    /\ UNCHANGED << inputs, split_vars, pc, recip_pts, sorted_pts, zs, coeffs, fcoords, occus, error, ret >>

\* variant: a merge overwrites the intensity of the peak instead of adding
MergePeakOverwrite ==
    /\ Reflect
    /\ LET two_theta == TwoTheta(wavelength, CurrentPt.g)
           ind == PeakIndices(two_thetas, two_theta)
       IN  /\ ind # {}
           /\ peaks' = [peaks EXCEPT
                  ![two_thetas[FirstIndex(ind)]] =
                      [@ EXCEPT !.intensity = CurrentIntensity * LorentzFactor(wavelength, CurrentPt.g),
                                !.hkls = Append(@, PeakIndexTuple(structure.lattice.hex, CurrentPt.hkl))]]
           /\ UNCHANGED two_thetas

MergePeak ==
    /\ Reflect
    /\ LET two_theta == TwoTheta(wavelength, CurrentPt.g)
           ind == PeakIndices(two_thetas, two_theta)
       IN  /\ ind # {}
           /\ peaks' = [peaks EXCEPT
                  ![two_thetas[FirstIndex(ind)]] =
                      [@ EXCEPT !.intensity = @ + CurrentIntensity * LorentzFactor(wavelength, CurrentPt.g),
                                !.hkls = Append(@, PeakIndexTuple(structure.lattice.hex, CurrentPt.hkl))]]
           /\ UNCHANGED two_thetas

\* variant: a peak is created whether or not a key is within the tolerance
NewPeakUnguarded ==
    /\ Reflect
    /\ LET two_theta == TwoTheta(wavelength, CurrentPt.g)
       IN  /\ peaks' = (two_theta :> [intensity |-> CurrentIntensity * LorentzFactor(wavelength, CurrentPt.g),
                                      hkls |-> << PeakIndexTuple(structure.lattice.hex, CurrentPt.hkl) >>,
                                      d_hkl |-> Rat(1, CurrentPt.g)]) @@ peaks
           /\ two_thetas' = Append(two_thetas, two_theta)

NewPeak ==
    /\ Reflect
    /\ LET two_theta == TwoTheta(wavelength, CurrentPt.g)
           ind == PeakIndices(two_thetas, two_theta)
       IN  /\ ind = {}
           /\ peaks' = (two_theta :> [intensity |-> CurrentIntensity * LorentzFactor(wavelength, CurrentPt.g),
                                      hkls |-> << PeakIndexTuple(structure.lattice.hex, CurrentPt.hkl) >>,
                                      d_hkl |-> Rat(1, CurrentPt.g)]) @@ peaks
           /\ two_thetas' = Append(two_thetas, two_theta)

\* ------------------------------------------------------------------------
\* After the loop: filter, sort, scale, return
\* ------------------------------------------------------------------------

\* variant: descending
RECURSIVE SortedKeysDescending(_)
SortedKeysDescending(S) ==
    IF S = {} THEN << >>
    ELSE LET m == CHOOSE x \in S : \A y \in S : x >= y
         IN  <<m>> \o SortedKeysDescending(S \ {m})

\* sorted(...) of a set of numbers, ascending
RECURSIVE SortedKeys(_)
SortedKeys(S) ==
    IF S = {} THEN << >>
    ELSE LET m == CHOOSE x \in S : \A y \in S : x <= y
         IN  <<m>> \o SortedKeys(S \ {m})

\* max(...) of a non-empty sequence of numbers
MaxOf(s) == CHOOSE m \in { s[i] : i \in 1..Len(s) } : \A i \in 1..Len(s) : s[i] <= m

\* sorted(np.abs(hkl)), as a sequence
RECURSIVE InsertInt(_, _)
InsertInt(s, x) ==
    IF s = << >> THEN <<x>>
    ELSE IF x < Head(s) THEN <<x>> \o s
    ELSE <<Head(s)>> \o InsertInt(Tail(s), x)

RECURSIVE SortedAbs(_)
SortedAbs(t) == IF t = << >> THEN << >> ELSE InsertInt(SortedAbs(Tail(t)), Abs(Head(t)))

\* is_perm of get_unique_families
IsPerm(hkl1, hkl2) == SortedAbs(hkl1) = SortedAbs(hkl2)

\* unique: the groups in order of their first member, a group's key first
RECURSIVE GroupFamilies(_, _)
GroupFamilies(hkls, unique) ==
    IF hkls = << >> THEN unique
    ELSE LET hkl1 == Head(hkls)
             found == { i \in 1..Len(unique) : IsPerm(hkl1, unique[i][1]) }
         IN  IF found # {}
             THEN GroupFamilies(Tail(hkls),
                      [unique EXCEPT ![FirstIndex(found)] = Append(@, hkl1)])
             ELSE GroupFamilies(Tail(hkls), Append(unique, <<hkl1>>))

\* sorted(v)[-1]
MaxTuple(v) ==
    CHOOSE m \in { v[i] : i \in 1..Len(v) } :
        \A i \in 1..Len(v) : v[i] = m \/ TupleLess(v[i], m)

\* [{"hkl": hkl, "multiplicity": mult} for hkl, mult in get_unique_families(v[1]).items()]
UniqueFamilies(hkls) ==
    LET unique == GroupFamilies(hkls, << >>)
    IN  [i \in 1..Len(unique) |-> [hkl |-> MaxTuple(unique[i]), multiplicity |-> Len(unique[i])]]

\* max([v[0] for v in peaks.values()])
MaxIntensity(pks) == MaxOf([i \in 1..Cardinality(DOMAIN pks) |-> pks[SortedKeys(DOMAIN pks)[i]].intensity])

\* variant: a peak exactly at the tolerance is kept
AboveToleranceInclusive(v, max_intensity) ==
    /\ max_intensity # 0
    /\ v * 100 >= SCALED_INTENSITY_TOL * max_intensity

\* v[0] / max_intensity * 100 > SCALED_INTENSITY_TOL; 0 / 0 is nan, and a
\* comparison with nan is false
AboveTolerance(v, max_intensity) ==
    /\ max_intensity # 0
    /\ v * 100 > SCALED_INTENSITY_TOL * max_intensity

\* the keys of the peaks that enter the pattern, ascending
KeptKeys(pks) ==
    SelectSeq(SortedKeys(DOMAIN pks),
              LAMBDA k : AboveTolerance(pks[k].intensity, MaxIntensity(pks)))

\* DiffractionPattern(x, y, hkls, d_hkls)
Pattern(pks) ==
    LET x == KeptKeys(pks)
    IN  [x |-> x,
         y |-> [i \in 1..Len(x) |-> Rat(pks[x[i]].intensity, 1)],
         hkls |-> [i \in 1..Len(x) |-> UniqueFamilies(pks[x[i]].hkls)],
         d_hkls |-> [i \in 1..Len(x) |-> pks[x[i]].d_hkl]]

\* variant: normalize(mode="sum")
NormalizeSum(xrd) ==
    LET factor == SumSeq([i \in 1..Len(xrd.y) |-> xrd.y[i].n])
    IN  [xrd EXCEPT !.y = [i \in 1..Len(xrd.y) |-> Rat(xrd.y[i].n * NormValue, factor)]]

\* xrd.normalize(mode="max", value=100): y /= max(y) / 100
Normalize(xrd) ==
    LET factor == MaxOf([i \in 1..Len(xrd.y) |-> xrd.y[i].n])
    IN  [xrd EXCEPT !.y = [i \in 1..Len(xrd.y) |-> Rat(xrd.y[i].n * NormValue, factor)]]

\* the position of the feature list in the returned tuple
ReturnedFeatures == ret[3]

\* the position of the diffraction pattern in the returned tuple
ReturnedPattern == ret[1]

\* recip_latt.matrix: the three basis vectors as rows, in ticks (b* at 60
\* degrees from a* for a hexagonal lattice)
RecipMatrix(latt) ==
    << << latt.astar, 0, 0 >>,
       IF latt.hex THEN << latt.bstar \div 2, (866 * latt.bstar) \div 1000, 0 >>
                   ELSE << 0, latt.bstar, 0 >>,
       << 0, 0, latt.cstar >> >>

LoopDone == pc = "loop" /\ idx > Len(sorted_pts)

\* what max([]) raises
EmptyMaxError == <<"ValueError", "max() arg is an empty sequence">>

\* variant: without peaks an empty pattern is returned
FailNoPeakReturnsEmpty ==
    /\ LoopDone
    /\ DOMAIN peaks = {}
    /\ pc' = "done"
    /\ ret' = << Pattern(peaks), RecipMatrix(structure.lattice), features >>
    /\ UNCHANGED << inputs, split_vars, recip_pts, sorted_pts, idx, zs, coeffs, fcoords, occus,
                    features, peaks, two_thetas, printed, error >>

\* max_intensity = max([v[0] for v in peaks.values()]) of no peak at all
FailNoPeak ==
    /\ LoopDone
    /\ DOMAIN peaks = {}
    /\ pc' = "failed"
    /\ error' = EmptyMaxError
    /\ UNCHANGED << inputs, split_vars, recip_pts, sorted_pts, idx, zs, coeffs, fcoords, occus,
                    features, peaks, two_thetas, printed, ret >>

\* what np.max raises in normalize for a pattern without peaks
EmptyNormalizeError == <<"ValueError", "zero-size array to reduction operation maximum">>

\* normalize of a pattern without peaks
FailNormalize ==
    /\ LoopDone
    /\ DOMAIN peaks # {}
    /\ scale_intensity
    /\ Pattern(peaks).x = << >>
    /\ pc' = "failed"
    /\ error' = EmptyNormalizeError
    /\ UNCHANGED << inputs, split_vars, recip_pts, sorted_pts, idx, zs, coeffs, fcoords, occus,
                    features, peaks, two_thetas, printed, ret >>

\* return xrd, recip_latt.matrix, features
Return ==
    /\ LoopDone
    /\ DOMAIN peaks # {}
    /\ scale_intensity => Pattern(peaks).x # << >>
    /\ pc' = "done"
    /\ ret' = << IF scale_intensity THEN Normalize(Pattern(peaks)) ELSE Pattern(peaks),
                 RecipMatrix(structure.lattice),
                 features >>
    /\ UNCHANGED << inputs, split_vars, recip_pts, sorted_pts, idx, zs, coeffs, fcoords, occus,
                    features, peaks, two_thetas, printed, error >>

Next ==
    \/ Construct
    \/ Setup
    \/ SkipPoint
    \/ MergePeak
    \/ NewPeak
    \/ FailNoPeak
    \/ FailNormalize
    \/ Return

Spec == Init /\ [][Next]_vars

\* ------------------------------------------------------------------------
\* gen_training.py: generate_train_valid_test, the three splits
\* ------------------------------------------------------------------------

\* no simulator call
XrdIdle ==
    /\ wavelength_arg = NameArg("CuKa")
    /\ symprec = 0
    /\ structure = << >>
    /\ refined = << >>
    /\ wavelength = 0
    /\ scale_intensity = TRUE
    /\ two_theta_range = NoRange
    /\ enum_order = "asc"
    /\ pc = "idle"
    /\ recip_pts = << >>
    /\ sorted_pts = << >>
    /\ idx = 0
    /\ zs = << >>
    /\ coeffs = << >>
    /\ fcoords = << >>
    /\ occus = << >>
    /\ features = << >>
    /\ peaks = EmptyPeaks
    /\ two_thetas = << >>
    /\ printed = << >>
    /\ error = NoError
    /\ ret = << >>

\* the datasets: n rows, each with its own material_id, in the order of
\* the caller
Datasets == { [i \in 1..n |-> i] : n \in 0..MaxRows }

\* the orders id_prop_all.sample(frac=1, random_state=random_seed) can give:
\* every row once, in an order that the seed decides
Shuffles(rows) ==
    { s \in [1..Len(rows) -> { rows[i] : i \in 1..Len(rows) }] : \A i, j \in 1..Len(rows) : s[i] = s[j] => i = j }

\* train_ratio, valid_ratio = 0.6, 0.2, in tenths
TrainRatio == 6

ValidRatio == 2

\* int(np.floor(id_prop_all.shape[0] * train_ratio)); the float product
\* n * 0.6 (and n * 0.2) has the floor of the exact product for every n
\* below two million
TrainSplit(rows) == (Len(rows) * TrainRatio) \div 10

\* variant: the end of the validation part is not offset by train_split
ValidSplitFromZero(rows) == (Len(rows) * ValidRatio) \div 10

\* valid_split = train_split + int(np.floor(id_prop_all.shape[0] * valid_ratio))
ValidSplit(rows) == TrainSplit(rows) + (Len(rows) * ValidRatio) \div 10

\* rows.iloc[a:b] for 0 <= a, b: positions a .. b-1 counted from 0, cut to
\* the rows there are, empty if b <= a
ILoc(rows, a, b) == SubSeq(rows, a + 1, Min2(b, Len(rows)))

\* ------------------------------------------------------------------------
\* gen_training.py: the feature files and the point selection
\* ------------------------------------------------------------------------

\* the index triples the feature files are enumerated over
FeatHKLs == { <<h, k, l>> : h \in -MaxHKL..MaxHKL, k \in -MaxHKL..MaxHKL, l \in -MaxHKL..MaxHKL }

\* the materials of ./MPdata_all/: the conventional cell and the wavelength
\* its features were computed with.  No point of these lattices inside the
\* sphere of its wavelength has an index beyond 4.
\*   1: the six points at distance 2/wavelength of a cubic cell
\*   2: only (1,0,0) and (-1,0,0) are inside the sphere
\*   3: a long cell, h runs from -4 to 4
\*   4: all 26 points with indices in -1..1 are inside the sphere
\*   5: a float wavelength shorter than CuKa, indices up to 2
\*   6: no point is inside the sphere
MPdata_all ==
    << [lattice |-> [astar |-> 200, bstar |-> 200, cstar |-> 200, hex |-> FALSE, volume |-> 2],
        wavelength |-> WAVELENGTHS.CuKa],
       [lattice |-> [astar |-> 200, bstar |-> 250, cstar |-> 250, hex |-> FALSE, volume |-> 2],
        wavelength |-> WAVELENGTHS.CuKa],
       [lattice |-> [astar |-> 50,  bstar |-> 200, cstar |-> 200, hex |-> FALSE, volume |-> 5],
        wavelength |-> WAVELENGTHS.CuKa],
       [lattice |-> [astar |-> 115, bstar |-> 115, cstar |-> 115, hex |-> FALSE, volume |-> 3],
        wavelength |-> WAVELENGTHS.CuKa],
       [lattice |-> [astar |-> 200, bstar |-> 200, cstar |-> 200, hex |-> FALSE, volume |-> 2],
        wavelength |-> 1],
       [lattice |-> [astar |-> 250, bstar |-> 250, cstar |-> 250, hex |-> FALSE, volume |-> 2],
        wavelength |-> WAVELENGTHS.CuKa] >>

\* the structure of a material: one fully occupied Li site in its cell
MaterialStructure(m) ==
    [lattice |-> m.lattice, volume |-> m.lattice.volume, sites |-> << Site("Li", 100, <<0, 0, 0>>) >>]

\* get_points_in_sphere for a feature file: the points within 2/wavelength
FilePoints(latt, w) ==
    { pt \in { [hkl |-> p, g |-> Dist(latt, p)] : p \in FeatHKLs } : pt.g <= TwoOverWavelength(w) }

\* the points of a set in some order
RECURSIVE SeqOfSet(_)
SeqOfSet(S) ==
    IF S = {} THEN << >>
    ELSE LET x == CHOOSE y \in S : TRUE IN <<x>> \o SeqOfSet(S \ {x})

\* the features get_pattern returns for a structure: the origin row, then
\* one row for every point of the sorted list that is not skipped
SimulatedFeatures(s, w) ==
    LET acc == SiteLoop(s.sites,
                        [zs |-> << >>, coeffs |-> << >>, fcoords |-> << >>,
                         occus |-> << >>, printed |-> << >>, error |-> NoError])
        kept == SelectSeq(SortedPts(SeqOfSet(FilePoints(s.lattice, w))),
                          LAMBDA pt : ~Skipped(w, pt.g))
    IN  << OriginRow(acc.zs, s.volume) >>
        \o [i \in 1..Len(kept) |->
               FeatureRow(kept[i].hkl,
                          Intensity(kept[i].hkl, kept[i].g, acc.zs, acc.coeffs, acc.fcoords, acc.occus),
                          s.volume)]

\* ./MPdata_all/<mat_id>_XRD_conventional.npy, one for every material
FeatFiles ==
    << SimulatedFeatures(MaterialStructure(MPdata_all[1]), MPdata_all[1].wavelength),
       SimulatedFeatures(MaterialStructure(MPdata_all[2]), MPdata_all[2].wavelength),
       SimulatedFeatures(MaterialStructure(MPdata_all[3]), MPdata_all[3].wavelength),
       SimulatedFeatures(MaterialStructure(MPdata_all[4]), MPdata_all[4].wavelength),
       SimulatedFeatures(MaterialStructure(MPdata_all[5]), MPdata_all[5].wavelength),
       SimulatedFeatures(MaterialStructure(MPdata_all[6]), MPdata_all[6].wavelength) >>

\* the material a material_id stands for
MaterialOf(mat_id) == ((mat_id - 1) % Len(MPdata_all)) + 1

\* hkl_feat = np.load(feat_file)
FeatFile(mat_id) == FeatFiles[MaterialOf(mat_id)]

\* recip_latt = np.load(basis_file): the matrix get_pattern returned
BasisFile(mat_id) == RecipMatrix(MPdata_all[MaterialOf(mat_id)].lattice)

\* npoint: the four sizes the function knows, and one it does not
NPoints == {3, 27, 125, 343, 64}

\* hkl_feat[:,:-1] of one row
RowIndices(row) == SubSeq(row, 1, Len(row) - 1)

\* np.sum, np.max, np.min over axis 1, for one row
RowSum(row) == SumSeq(RowIndices(row))

RowMax(row) == MaxOf(RowIndices(row))

RowMin(row) == -MaxOf([i \in 1..Len(RowIndices(row)) |-> -RowIndices(row)[i]])

\* npoint == 3: (sum == 1) & (min > -1)
SelectAxes(hkl_feat) == SelectSeq(hkl_feat, LAMBDA row : RowSum(row) = 1 /\ RowMin(row) > -1)

\* variant: only the upper limit is tested
SelectCubeUpper(hkl_feat, limit) == SelectSeq(hkl_feat, LAMBDA row : 10 * RowMax(row) < limit)

\* npoint == 27, 125, 343: (max < limit) & (min > -limit), limit in tenths
SelectCube(hkl_feat, limit) ==
    SelectSeq(hkl_feat, LAMBDA row : 10 * RowMax(row) < limit /\ 10 * RowMin(row) > -limit)

\* the limits 1.1, 2.1, 3.1 of the three cubes, in tenths
CubeLimit == (27 :> 11) @@ (125 :> 21) @@ (343 :> 31)

Implemented(n) == n = 3 \/ n \in DOMAIN CubeLimit

\* selected_hkl_feat = hkl_feat[conditions]
Selected(n, hkl_feat) ==
    IF n = 3 THEN SelectAxes(hkl_feat) ELSE SelectCube(hkl_feat, CubeLimit[n])

\* assert(selected_hkl_feat.shape[0] == 3), assert(selected_hkl_feat.shape[0] <= npoint)
SelectedCountOk(n, sel) == IF n = 3 THEN Len(sel) = 3 ELSE Len(sel) <= n

\* np.dot(selected_hkl_feat[:,:-1], recip_latt) for one row, in ticks
RecipPos(row, basis) ==
    [j \in 1..3 |-> row[1] * basis[1][j] + row[2] * basis[2][j] + row[3] * basis[3][j]]

\* recip_pos /= max_r with max_r = 2 / 1.54184;
\* assert(np.amax(recip_pos) <= 1.0), assert(np.amin(recip_pos) >= -1.0)
PositionsOk(sel, basis) ==
    \A i \in 1..Len(sel) : \A j \in 1..3 :
        /\ RecipPos(sel[i], basis)[j] <= TwoOverWavelength(WAVELENGTHS.CuKa)
        /\ RecipPos(sel[i], basis)[j] >= -TwoOverWavelength(WAVELENGTHS.CuKa)

\* intensity = np.log(1 + I) / 3. (neutron is False);
\* assert(np.amax(intensity) <= 2.5), assert(np.amin(intensity) >= 0.):
\* I <= exp(7.5) - 1 = 1807.04 and I >= 0
IntensitiesOk(sel) ==
    \A i \in 1..Len(sel) :
        /\ 100 * sel[i][4].n <= 180704 * sel[i][4].d
        /\ sel[i][4].n >= 0

AssertSelectedError == <<"AssertionError", "selected_hkl_feat.shape[0]">>

AssertScaleError == <<"AssertionError", "recip_pos, intensity">>

EmptyCloudError == <<"ValueError", "zero-size array to reduction operation maximum">>

NotImplementedError == <<"NotImplementedError">>

\* the order in which the loops over the three parts take the materials
SaveOrder == train_data \o valid_data \o test_data

\* the loop is before a material
AtMaterial == split_pc \in {"test", "saved"} /\ mat_pos < Len(SaveOrder)

SplitInit ==
    /\ XrdIdle
    /\ id_prop_all \in Datasets
    /\ train_data = << >>
    /\ valid_data = << >>
    /\ test_data = << >>
    /\ split_pc = "start"
    /\ npoint \in NPoints
    /\ mat_pos = 0
    /\ selected_hkl_feat = << >>
    /\ saved_ids = << >>
    /\ split_error = NoError

\* id_prop_all = id_prop_all.sample(frac=1, random_state=random_seed)
Shuffle ==
    /\ split_pc = "start"
    /\ id_prop_all' \in Shuffles(id_prop_all)
    /\ split_pc' = "shuffled"
    /\ UNCHANGED << xrd_vars, cloud_vars, train_data, valid_data, test_data >>

\* train_data = id_prop_all.iloc[:train_split]
TakeTrain ==
    /\ split_pc = "shuffled"
    /\ train_data' = ILoc(id_prop_all, 0, TrainSplit(id_prop_all))
    /\ split_pc' = "train"
    /\ UNCHANGED << xrd_vars, cloud_vars, id_prop_all, valid_data, test_data >>

\* valid_data = id_prop_all.iloc[train_split:valid_split]
TakeValid ==
    /\ split_pc = "train"
    /\ valid_data' = ILoc(id_prop_all, TrainSplit(id_prop_all), ValidSplit(id_prop_all))
    /\ split_pc' = "valid"
    /\ UNCHANGED << xrd_vars, cloud_vars, id_prop_all, train_data, test_data >>

\* test_data = id_prop_all.iloc[valid_split:]
TakeTest ==
    /\ split_pc = "valid"
    /\ test_data' = ILoc(id_prop_all, ValidSplit(id_prop_all), Len(id_prop_all))
    /\ split_pc' = "test"
    /\ UNCHANGED << xrd_vars, cloud_vars, id_prop_all, train_data, valid_data >>

\* the next material: its rows are selected and the assertion on their
\* number holds
SelectPoints ==
    /\ AtMaterial
    /\ Implemented(npoint)
    /\ SelectedCountOk(npoint, Selected(npoint, FeatFile(SaveOrder[mat_pos + 1])))
    /\ selected_hkl_feat' = Selected(npoint, FeatFile(SaveOrder[mat_pos + 1]))
    /\ mat_pos' = mat_pos + 1
    /\ split_pc' = "selected"
    /\ UNCHANGED << xrd_vars, id_prop_all, train_data, valid_data, test_data,
                    npoint, saved_ids, split_error >>

\* the next material: its rows are selected and the assertion on their
\* number fails
FailSelect ==
    /\ AtMaterial
    /\ Implemented(npoint)
    /\ ~SelectedCountOk(npoint, Selected(npoint, FeatFile(SaveOrder[mat_pos + 1])))
    /\ selected_hkl_feat' = Selected(npoint, FeatFile(SaveOrder[mat_pos + 1]))
    /\ mat_pos' = mat_pos + 1
    /\ split_pc' = "failed"
    /\ split_error' = AssertSelectedError
    /\ UNCHANGED << xrd_vars, id_prop_all, train_data, valid_data, test_data, npoint, saved_ids >>

\* the next material, with an npoint that is none of 3, 27, 125, 343
RaiseNotImplemented ==
    /\ AtMaterial
    /\ ~Implemented(npoint)
    /\ mat_pos' = mat_pos + 1
    /\ split_pc' = "failed"
    /\ split_error' = NotImplementedError
    /\ UNCHANGED << xrd_vars, id_prop_all, train_data, valid_data, test_data,
                    npoint, selected_hkl_feat, saved_ids >>

\* the selected rows pass the assertions on positions and intensities
CloudOk ==
    /\ selected_hkl_feat # << >>
    /\ PositionsOk(selected_hkl_feat, BasisFile(SaveOrder[mat_pos]))
    /\ IntensitiesOk(selected_hkl_feat)

\* the point cloud of the material is converted, normalized and saved
SavePointCloud ==
    /\ split_pc = "selected"
    /\ CloudOk
    /\ saved_ids' = Append(saved_ids, SaveOrder[mat_pos])
    /\ split_pc' = "saved"
    /\ UNCHANGED << xrd_vars, id_prop_all, train_data, valid_data, test_data,
                    npoint, mat_pos, selected_hkl_feat, split_error >>

\* np.amax of no rows raises, and so does an assertion that fails
FailPointCloud ==
    /\ split_pc = "selected"
    /\ ~CloudOk
    /\ split_error' = IF selected_hkl_feat = << >> THEN EmptyCloudError ELSE AssertScaleError
    /\ split_pc' = "failed"
    /\ UNCHANGED << xrd_vars, id_prop_all, train_data, valid_data, test_data,
                    npoint, mat_pos, selected_hkl_feat, saved_ids >>

SplitNext ==
    \/ Shuffle
    \/ TakeTrain
    \/ TakeValid
    \/ TakeTest
    \/ SelectPoints
    \/ FailSelect
    \/ RaiseNotImplemented
    \/ SavePointCloud
    \/ FailPointCloud

SplitSpec == SplitInit /\ [][SplitNext]_vars

TypeOK ==
    /\ pc \in {"new", "rejected", "start", "loop", "done", "failed"}
    /\ split_pc = "idle"
    /\ idx \in 0..(Len(sorted_pts) + 1)
    /\ Len(features) <= Len(sorted_pts) + 1

\* ------------------------------------------------------------------------
\* Vocabulary of the properties
\* ------------------------------------------------------------------------

Range(s) == { s[i] : i \in 1..Len(s) }

\* sum of the atomic numbers of all species of all sites of the input
TotalZ ==
    SumSeq([i \in 1..Len(structure.sites) |->
              SumSeq([j \in 1..Len(structure.sites[i].species) |->
                        AtomicNumber[structure.sites[i].species[j].symbol]])])

\* the enumerated points inside the closed interval [1e-4, 2 / wavelength]
Survivors ==
    { pt \in Range(recip_pts) : pt.g >= GTol /\ pt.g <= TwoOverWavelength(wavelength) }

RowHKL(row) == << row[1], row[2], row[3] >>

\* the 3-index of a tuple recorded in a peak
TupleHKL(t) == << t[1], t[2], t[Len(t)] >>

Started == pc \in {"loop", "done"}

Returned == pc = "done"

\* C1: the first row of the feature list is the origin row
\* [0, 0, 0, (sum of Z / volume)^2] and no other row has h = k = l = 0, in
\* the list under construction and in the returned list.
C1_OriginRowFirst ==
    /\ Started =>
        /\ Len(features) >= 1
        /\ RowHKL(features[1]) = <<0, 0, 0>>
        /\ RatEq(features[1][4],
                 Rat(TotalZ * TotalZ, structure.volume * structure.volume))
        /\ \A i \in 2..Len(features) : RowHKL(features[i]) # <<0, 0, 0>>
    /\ Returned => ReturnedFeatures = features

\* a run that returned, whose enumerator had produced the origin point and
\* whose feature list has rows behind the origin row
C1_Witness ==
    /\ Returned
    /\ \E pt \in Range(recip_pts) : pt.hkl = <<0, 0, 0>> /\ pt.g = 0
    /\ Len(ReturnedFeatures) > 1
    /\ TotalZ > 1

\* C2: behind the origin row the returned feature list has exactly one row
\* per enumerated point that passes the filters, holding the 3-index of the
\* point and I_hkl / volume^2 (no Lorentz factor, no merging, no threshold,
\* no scaling).
C2_FeaturesUnmerged ==
    Returned =>
        /\ Len(ReturnedFeatures) = 1 + Cardinality(Survivors)
        /\ \A pt \in Survivors :
               \E i \in 2..Len(ReturnedFeatures) :
                   /\ Len(ReturnedFeatures[i]) = 4
                   /\ RowHKL(ReturnedFeatures[i]) = pt.hkl
                   /\ RatEq(ReturnedFeatures[i][4],
                            Rat(Intensity(pt.hkl, pt.g, zs, coeffs, fcoords, occus),
                                structure.volume * structure.volume))

\* a returned scaled pattern with fewer peaks than reflections, one of them
\* dropped by the threshold, on a hexagonal lattice or not
C2_Witness ==
    /\ Returned
    /\ scale_intensity
    /\ Cardinality(Survivors) > Cardinality(DOMAIN peaks)
    /\ Cardinality(DOMAIN peaks) > Len(ReturnedPattern.x)
    /\ \E pt \in Survivors :
           /\ LorentzFactor(wavelength, pt.g) > 1
           /\ Intensity(pt.hkl, pt.g, zs, coeffs, fcoords, occus) > 0

\* C3: every point that is emitted, as a feature row behind the origin row
\* or as a contributor of a peak, has 1e-4 <= g <= 2 / wavelength.
C3_EmittedInsideInterval ==
    Started =>
        /\ \A i \in 2..Len(features) :
               /\ Dist(structure.lattice, RowHKL(features[i])) >= GTol
               /\ Dist(structure.lattice, RowHKL(features[i])) <= TwoOverWavelength(wavelength)
        /\ \A k \in DOMAIN peaks : \A t \in Range(peaks[k].hkls) :
               /\ Dist(structure.lattice, TupleHKL(t)) >= GTol
               /\ Dist(structure.lattice, TupleHKL(t)) <= TwoOverWavelength(wavelength)

\* the loop is over, it has emitted points into rows and peaks, and the
\* enumerator had returned a point shorter than 1e-4
C3_Witness ==
    /\ Started
    /\ idx > Len(sorted_pts)
    /\ Len(features) > 1
    /\ DOMAIN peaks # {}
    /\ \E pt \in Range(recip_pts) : pt.g < GTol

\* C4: a point whose magnitude is exactly 2 / wavelength is excluded from
\* the feature list and from the peaks.
C4_OnSphereExcluded ==
    Started =>
        \A pt \in Range(sorted_pts) :
            pt.g = TwoOverWavelength(wavelength) =>
                /\ \A i \in 2..Len(features) : RowHKL(features[i]) # pt.hkl
                /\ \A k \in DOMAIN peaks : \A t \in Range(peaks[k].hkls) : TupleHKL(t) # pt.hkl

\* magnitude of the point of a feature row
RowG(row) == Dist(structure.lattice, RowHKL(row))

\* the sort key of the point of a feature row: (g, -h, -k, -l)
RowKey(row) == << RowG(row), -row[1], -row[2], -row[3] >>

\* C5: the feature rows behind the origin row are in strictly ascending
\* order of (g, -h, -k, -l), whatever order the enumerator returned the
\* points in: magnitude first, then larger h, larger k, larger l first.
\* Each row is compared with the next one; the order being transitive, this
\* is the statement for every pair of rows.
C5_RowsInKeyOrder ==
    Started =>
        \A i \in 2..(Len(features) - 1) :
            LET j == i + 1 IN
            \/ RowG(features[i]) < RowG(features[j])
            \/ /\ RowG(features[i]) = RowG(features[j])
               /\ \/ features[i][1] > features[j][1]
                  \/ features[i][1] = features[j][1] /\ features[i][2] > features[j][2]
                  \/ /\ features[i][1] = features[j][1]
                     /\ features[i][2] = features[j][2]
                     /\ features[i][3] > features[j][3]

\* a returned run whose enumerator gave the points in ascending index order
\* and whose rows hold ties in g decided by h, by k and by l
C5_Witness ==
    /\ Returned
    /\ enum_order = "asc"
    /\ \E i, j \in 2..Len(features) :
           i < j /\ RowG(features[i]) = RowG(features[j]) /\ features[i][1] > features[j][1]
    /\ \E i, j \in 2..Len(features) :
           /\ i < j /\ RowG(features[i]) = RowG(features[j])
           /\ features[i][1] = features[j][1] /\ features[i][2] > features[j][2]
    /\ \E i, j \in 2..Len(features) :
           /\ i < j /\ RowG(features[i]) = RowG(features[j])
           /\ features[i][1] = features[j][1] /\ features[i][2] = features[j][2]
           /\ features[i][3] > features[j][3]

\* the reflections the loop has processed so far: the points before idx
\* that were not skipped
Processed == { sorted_pts[i] : i \in { j \in 1..(idx - 1) : ~Skipped(wavelength, sorted_pts[j].g) } }

\* the keys of the peaks whose list records the point
PeaksOf(pt) ==
    { k \in DOMAIN peaks :
        \E i \in 1..Len(peaks[k].hkls) :
            peaks[k].hkls[i] = PeakIndexTuple(structure.lattice.hex, pt.hkl) }

\* two theta of a point
PtTwoTheta(pt) == TwoTheta(wavelength, pt.g)

\* Lorentz-corrected intensity of a point
PtCorrected(pt) ==
    Intensity(pt.hkl, pt.g, zs, coeffs, fcoords, occus) * LorentzFactor(wavelength, pt.g)

\* C6 as stated: any two processed reflections whose two theta differ by
\* less than the tolerance are in the same peak.
C6_PairsWithinToleranceShareAPeak ==
    Started =>
        \A p, q \in Processed :
            Abs(PtTwoTheta(p) - PtTwoTheta(q)) < TWO_THETA_TOL => PeaksOf(p) = PeaksOf(q)

\* C6 amended: every processed reflection is in the earliest-created peak
\* whose key (the two theta of the reflection that created the peak) differs
\* from its own two theta by less than the tolerance, and such a peak
\* exists; reflections with equal two theta therefore share a peak (a
\* reflection never leaves its peak, so this is looked at when the loop is
\* over).
C6_MergedIntoFirstKeyWithinTolerance ==
    Started =>
        /\ \A p \in Processed :
               /\ \E i \in 1..Len(two_thetas) : Abs(two_thetas[i] - PtTwoTheta(p)) < TWO_THETA_TOL
               /\ PeaksOf(p) =
                      { two_thetas[CHOOSE i \in 1..Len(two_thetas) :
                            /\ Abs(two_thetas[i] - PtTwoTheta(p)) < TWO_THETA_TOL
                            /\ \A j \in 1..(i - 1) :
                                   Abs(two_thetas[j] - PtTwoTheta(p)) >= TWO_THETA_TOL] }
        /\ idx > Len(sorted_pts) =>
               \A p, q \in Processed : PtTwoTheta(p) = PtTwoTheta(q) => PeaksOf(p) = PeaksOf(q)

\* three reflections a, b, c are processed: b is within the tolerance of a
\* and of c, a and c are not within it of each other; b has joined the peak
\* of a, and c is in another peak
C6_Witness ==
    /\ Started
    /\ \E a, b, c \in Processed :
           /\ PtTwoTheta(a) < PtTwoTheta(b) /\ PtTwoTheta(b) < PtTwoTheta(c)
           /\ PtTwoTheta(b) - PtTwoTheta(a) < TWO_THETA_TOL
           /\ PtTwoTheta(c) - PtTwoTheta(b) < TWO_THETA_TOL
           /\ PtTwoTheta(c) - PtTwoTheta(a) >= TWO_THETA_TOL
           /\ PeaksOf(a) = PeaksOf(b)
           /\ PeaksOf(b) # PeaksOf(c)

\* number of times a tuple occurs in a list
Occurrences(s, t) == Cardinality({ i \in 1..Len(s) : s[i] = t })

\* C7: every processed reflection is recorded once, in one peak; the sum of
\* the peak intensities is the sum of the Lorentz-corrected intensities of
\* the processed reflections and the number of recorded tuples is their
\* number; the key and the d-spacing of a peak are those of the reflection
\* that created it (the first of its list).
C7_EachReflectionInOnePeak ==
    Started =>
        /\ \A p \in Processed :
               /\ Cardinality(PeaksOf(p)) = 1
               /\ \A k \in PeaksOf(p) :
                      Occurrences(peaks[k].hkls, PeakIndexTuple(structure.lattice.hex, p.hkl)) = 1
        /\ SumSet(DOMAIN peaks, [k \in DOMAIN peaks |-> Len(peaks[k].hkls)]) = Cardinality(Processed)
        /\ SumSet(DOMAIN peaks, [k \in DOMAIN peaks |-> peaks[k].intensity])
             = SumSet(Processed, [p \in Processed |-> PtCorrected(p)])
        /\ \A k \in DOMAIN peaks :
               /\ peaks[k].hkls # << >>
               /\ k = TwoTheta(wavelength, Dist(structure.lattice, TupleHKL(peaks[k].hkls[1])))
               /\ RatEq(peaks[k].d_hkl,
                        Rat(1, Dist(structure.lattice, TupleHKL(peaks[k].hkls[1]))))

\* the loop is over and a peak holds reflections of two different
\* magnitudes with non-zero intensity, next to another peak
C7_Witness ==
    /\ Started
    /\ idx > Len(sorted_pts)
    /\ Cardinality(DOMAIN peaks) > 1
    /\ \E k \in DOMAIN peaks : \E p, q \in Processed :
           /\ PeaksOf(p) = {k} /\ PeaksOf(q) = {k}
           /\ p.g # q.g
           /\ PtCorrected(p) > 0 /\ PtCorrected(q) > 0

\* the largest of the merged intensities
LargestIntensity ==
    CHOOSE m \in { peaks[k].intensity : k \in DOMAIN peaks } :
        \A k \in DOMAIN peaks : peaks[k].intensity <= m

\* the largest intensity among the peaks of the returned pattern
LargestKeptIntensity ==
    CHOOSE m \in { peaks[k].intensity : k \in Range(ReturnedPattern.x) } :
        \A k \in Range(ReturnedPattern.x) : peaks[k].intensity <= m

\* C8: the two theta of the returned pattern are strictly ascending, and the
\* intensity, family list and d-spacing at each position are those of the
\* peak with the two theta of that position.
C8_PatternSortedAndAligned ==
    Returned =>
        LET pat == ReturnedPattern IN
        /\ Len(pat.y) = Len(pat.x) /\ Len(pat.hkls) = Len(pat.x) /\ Len(pat.d_hkls) = Len(pat.x)
        /\ \A i \in 1..Len(pat.x) : \A j \in (i + 1)..Len(pat.x) : pat.x[i] < pat.x[j]
        /\ \A i \in 1..Len(pat.x) :
               /\ pat.x[i] \in DOMAIN peaks
               /\ pat.hkls[i] = UniqueFamilies(peaks[pat.x[i]].hkls)
               /\ RatEq(pat.d_hkls[i], peaks[pat.x[i]].d_hkl)
               /\ IF scale_intensity
                  THEN pat.y[i].n * LargestKeptIntensity
                         = NormValue * peaks[pat.x[i]].intensity * pat.y[i].d
                  ELSE pat.y[i].n = peaks[pat.x[i]].intensity * pat.y[i].d

\* a returned pattern of three peaks or more with different intensities and
\* different family lists, one peak having been dropped
C8_Witness ==
    /\ Returned
    /\ Len(ReturnedPattern.x) >= 3
    /\ Cardinality(DOMAIN peaks) > Len(ReturnedPattern.x)
    /\ \E i, j \in 1..Len(ReturnedPattern.x) :
           /\ peaks[ReturnedPattern.x[i]].intensity # peaks[ReturnedPattern.x[j]].intensity
           /\ ReturnedPattern.hkls[i] # ReturnedPattern.hkls[j]

\* C9: with scale_intensity the largest intensity of the returned pattern
\* is exactly 100 and every intensity is 100 / max times the intensity the
\* unscaled pattern has at that position (equal ratios); without it the
\* intensities are the summed Lorentz-corrected values of the peaks; the
\* two theta of the pattern are those of the unscaled pattern either way.
C9_ScaledToHundred ==
    Returned =>
        LET pat == ReturnedPattern
            raw == Pattern(peaks)
        IN  /\ pat.x = raw.x
            /\ Len(pat.y) = Len(raw.y)
            /\ scale_intensity =>
                   /\ \E i \in 1..Len(pat.y) : pat.y[i].n = 100 * pat.y[i].d
                   /\ \A i \in 1..Len(pat.y) : pat.y[i].n <= 100 * pat.y[i].d
                   /\ \A i \in 1..Len(pat.y) :
                          pat.y[i].n * LargestKeptIntensity = 100 * raw.y[i].n * pat.y[i].d
                   /\ \A i, j \in 1..Len(pat.y) :
                          (raw.y[i].n = raw.y[j].n) = RatEq(pat.y[i], pat.y[j])
            /\ ~scale_intensity =>
                   \A i \in 1..Len(pat.y) :
                       pat.y[i].n = SumSet(
                           { p \in Processed : PeaksOf(p) = {pat.x[i]} },
                           [p \in Processed |-> PtCorrected(p)]) * pat.y[i].d

\* a scaled pattern of several peaks of different intensities has been
\* returned, none of them 100 before the scaling
C9_Witness ==
    /\ Returned
    /\ scale_intensity
    /\ Len(ReturnedPattern.x) >= 2
    /\ \E i, j \in 1..Len(ReturnedPattern.x) :
           peaks[ReturnedPattern.x[i]].intensity # peaks[ReturnedPattern.x[j]].intensity
    /\ LargestKeptIntensity # 100

\* C10: a peak is in the returned pattern exactly when
\* 100 * intensity / max_intensity > SCALED_INTENSITY_TOL, max_intensity
\* being the largest merged intensity; a peak exactly at the tolerance is
\* dropped; the largest peak is kept when max_intensity > 0; the feature
\* list keeps one row per reflection.
C10_ThresholdOnScaledIntensity ==
    Returned =>
        /\ \A k \in DOMAIN peaks :
               (k \in Range(ReturnedPattern.x))
                 <=> (100 * peaks[k].intensity > SCALED_INTENSITY_TOL * LargestIntensity)
        /\ \A k \in DOMAIN peaks :
               (100 * peaks[k].intensity = SCALED_INTENSITY_TOL * LargestIntensity)
                 => k \notin Range(ReturnedPattern.x)
        /\ LargestIntensity > 0 =>
               \E k \in Range(ReturnedPattern.x) : peaks[k].intensity = LargestIntensity
        /\ Len(ReturnedFeatures) = 1 + Cardinality(Processed)

\* a pattern has been returned that drops a peak of non-zero intensity
\* exactly at the tolerance and keeps the largest peak and a smaller one
C10_Witness ==
    /\ Returned
    /\ LargestIntensity > 0
    /\ \E k \in DOMAIN peaks :
           /\ peaks[k].intensity > 0
           /\ 100 * peaks[k].intensity = SCALED_INTENSITY_TOL * LargestIntensity
           /\ k \notin Range(ReturnedPattern.x)
    /\ \E k \in Range(ReturnedPattern.x) : peaks[k].intensity < LargestIntensity
    /\ Len(ReturnedFeatures) > 1 + Len(ReturnedPattern.x)

\* C11: on a hexagonal lattice every tuple recorded in a peak is the 4-index
\* (h, k, -h-k, l) of an enumerated point that passed the filters; on any
\* other lattice it is the 3-index (h, k, l) of such a point.  The feature
\* rows hold the 3-index either way, and the intensity of a row is the one
\* computed from the 3-index.
C11_HexagonalTuplesFourIndex ==
    Started =>
        /\ \A k \in DOMAIN peaks : \A t \in Range(peaks[k].hkls) :
               IF structure.lattice.hex
               THEN /\ Len(t) = 4
                    /\ t[3] = -t[1] - t[2]
                    /\ \E pt \in Survivors : pt.hkl = << t[1], t[2], t[4] >>
               ELSE /\ Len(t) = 3
                    /\ \E pt \in Survivors : pt.hkl = t
        /\ \A i \in 1..Len(features) : Len(features[i]) = 4
        /\ \A p \in Processed :
               \E i \in 2..Len(features) :
                   /\ RowHKL(features[i]) = p.hkl
                   /\ RatEq(features[i][4],
                            Rat(Intensity(p.hkl, p.g, zs, coeffs, fcoords, occus),
                                structure.volume * structure.volume))

\* a pattern of a hexagonal lattice with two atoms has been returned, and a
\* peak records a tuple whose third index is neither zero nor the index l,
\* the phase of that reflection depending on which of the two is used
C11_Witness ==
    /\ Returned
    /\ structure.lattice.hex
    /\ Len(zs) > 1
    /\ \E k \in DOMAIN peaks : \E t \in Range(peaks[k].hkls) :
           /\ Len(t) = 4
           /\ t[3] # 0
           /\ t[3] # t[4]
           /\ \E j \in 1..Len(fcoords) :
                  PhaseFactor(<< t[1], t[2], t[4] >>, fcoords[j])
                    # PhaseFactor(<< t[1], t[2], t[3] >>, fcoords[j])

\* C12: when no enumerated point passes the filters (no point at all, or
\* only points shorter than 1e-4 such as the origin), the call ends with the
\* error of max() over no peak and returns nothing; the feature list it had
\* built holds the origin row alone and is not handed out.  A call that
\* returns had a point that passed the filters.
C12_NoSurvivorFailsAtMax ==
    /\ Returned => Survivors # {}
    /\ (pc = "failed" /\ error = EmptyMaxError) =>
           /\ Survivors = {}
           /\ DOMAIN peaks = {}
           /\ Len(features) = 1
           /\ ret = << >>
    /\ (pc \in {"done", "failed"} /\ idx > Len(sorted_pts) /\ Survivors = {}) =>
           /\ pc = "failed"
           /\ error = EmptyMaxError
           /\ ret = << >>

\* the call has failed at max(): the enumerator had returned the origin,
\* which the loop skipped, and the feature list holds the origin row
C12_Witness ==
    /\ pc = "failed"
    /\ error = EmptyMaxError
    /\ \E pt \in Range(recip_pts) : pt.hkl = <<0, 0, 0>>
    /\ idx > Len(sorted_pts)
    /\ Len(features) = 1
    /\ ret = << >>

\* the element symbols of the input structure that the table of scattering
\* coefficients does not hold
MissingSymbols ==
    UNION { { structure.sites[i].species[j].symbol : j \in 1..Len(structure.sites[i].species) } :
              i \in 1..Len(structure.sites) }
      \ DOMAIN ATOMIC_SCATTERING_PARAMS

\* C13: for a structure with an element that has no scattering coefficients
\* get_pattern raises the ValueError that names the element, before any
\* point is looked at: no feature row, no peak, nothing returned, and the
\* element is not left out of the arrays of the sites.  The error is raised
\* for no other structure.
C13_MissingCoefficientsRaise ==
    /\ (MissingSymbols # {} /\ pc \in {"loop", "done", "failed"}) =>
           /\ pc = "failed"
           /\ \E sym \in MissingSymbols : error = NoScatteringError(sym)
           /\ idx = 0
           /\ features = << >>
           /\ DOMAIN peaks = {}
           /\ ret = << >>
    /\ (\E sym \in DOMAIN AtomicNumber : error = NoScatteringError(sym)) =>
           /\ MissingSymbols # {}
           /\ pc = "failed"

\* the call has raised the error for deuterium; the structure also has an
\* atom with coefficients and reciprocal points inside the filters
C13_Witness ==
    /\ pc = "failed"
    /\ error = NoScatteringError("D")
    /\ Survivors # {}
    /\ Len(structure.sites) > 1
    /\ ret = << >>

\* the input structure has a site with more than one species
HasMixedSite == \E i \in 1..Len(structure.sites) : Len(structure.sites[i].species) > 1

\* the input structure has a species whose occupancy is not 1
HasPartialOccupancy ==
    \E i \in 1..Len(structure.sites) : \E j \in 1..Len(structure.sites[i].species) :
        structure.sites[i].species[j].occu # 100

\* C14: for a structure with a mixed site or with an occupancy other than 1
\* get_pattern does not return a pattern and a feature list.
C14_UnsupportedSiteFails ==
    (HasMixedSite \/ HasPartialOccupancy) => ~Returned

\* C15 as stated: constructing the simulator with a wavelength name that
\* the table does not hold raises no error.
C15_UnsupportedNameOnlyPrints ==
    ~Supported(wavelength_arg) => (pc # "rejected" /\ error = NoError)

\* C15 amended: constructing the simulator with a wavelength name that the
\* table does not hold raises KeyError for that name: nothing is printed,
\* self.wavelength is not set and get_pattern is not reached.  A float is
\* stored as it is and a name of the table as its entry, without an error.
C15_UnsupportedNameRaises ==
    /\ (~Supported(wavelength_arg) /\ pc # "new") =>
           /\ pc = "rejected"
           /\ error = WavelengthKeyError(wavelength_arg.name)
           /\ printed = << >>
           /\ wavelength = 0
           /\ ret = << >>
    /\ (Supported(wavelength_arg) /\ pc # "new") =>
           /\ pc # "rejected"
           /\ wavelength = (IF wavelength_arg.float THEN wavelength_arg.value
                            ELSE WAVELENGTHS[wavelength_arg.name])
    /\ pc = "new" => (wavelength = 0 /\ error = NoError)

\* the constructor has raised KeyError for the name "XxKa"
C15_Witness ==
    /\ pc = "rejected"
    /\ ~wavelength_arg.float
    /\ wavelength_arg.name = "XxKa"
    /\ error = WavelengthKeyError("XxKa")

\* C16: the returned tuple is (pattern, feature list, reciprocal matrix).
C16_DocumentedOrder ==
    Returned =>
        /\ Len(ret) = 3
        /\ ret[1] = (IF scale_intensity THEN Normalize(Pattern(peaks)) ELSE Pattern(peaks))
        /\ ret[2] = features
        /\ ret[3] = RecipMatrix(structure.lattice)

\* the errors get_pattern raises
PatternErrors ==
    { EmptyMaxError, EmptyNormalizeError } \cup { NoScatteringError(sym) : sym \in DOMAIN AtomicNumber }

\* the ends of the requested range as reciprocal lengths, in ticks:
\* 2 sin(t / 2) / wavelength
RangeLow == (2 * SinHalfDeg(two_theta_range[1]) * TicksPerUnit) \div (100000 * wavelength)

RangeHigh == (2 * SinHalfDeg(two_theta_range[2]) * TicksPerUnit) \div (100000 * wavelength)

\* C17: a non-zero symprec and a two_theta_range other than None are each
\* reported by a print and by nothing else: the call goes on, and when it
\* fails it fails with an error that also occurs without them.  With a
\* range, the points kept are those with min_r <= g <= max_r of that range:
\* no row and no peak holds a point outside it, and every point inside it
\* that is not skipped gets its row.  With a non-zero symprec the call works
\* on the refined structure, whose reciprocal matrix it returns.
C17_ViolatedPreconditionsOnlyPrint ==
    /\ pc \in {"loop", "done", "failed"} =>
           /\ (symprec # 0) = (MsgSymprec \in Range(printed))
           /\ (two_theta_range # NoRange) = (MsgRange \in Range(printed))
           /\ symprec # 0 => structure = refined
    /\ pc = "failed" => error \in PatternErrors
    /\ (Started /\ two_theta_range # NoRange) =>
           /\ \A pt \in Range(recip_pts) :
                  /\ pt.g <= RangeHigh
                  /\ RangeLow # 0 => pt.g >= RangeLow
           /\ \A i \in 2..Len(features) :
                  RowG(features[i]) >= RangeLow /\ RowG(features[i]) <= RangeHigh
           /\ \A k \in DOMAIN peaks : \A t \in Range(peaks[k].hkls) :
                  /\ Dist(structure.lattice, TupleHKL(t)) >= RangeLow
                  /\ Dist(structure.lattice, TupleHKL(t)) <= RangeHigh
           /\ idx > Len(sorted_pts) =>
                  \A hkl \in HKLs :
                      LET g == Dist(structure.lattice, hkl) IN
                      (g >= RangeLow /\ g <= RangeHigh /\ g >= GTol) =>
                          \E i \in 2..Len(features) : RowHKL(features[i]) = hkl
    /\ (Returned /\ symprec # 0) =>
           /\ ret[2] = RecipMatrix(refined.lattice)
           /\ \A i \in 2..Len(features) :
                  Dist(refined.lattice, RowHKL(features[i])) <= TwoOverWavelength(wavelength)

\* a call with a non-zero symprec has printed the diagnostic and returned a
\* pattern of the refined structure, whose lattice is not the one of the
\* argument
C17_Witness ==
    /\ Returned
    /\ symprec # 0
    /\ MsgSymprec \in Range(printed)
    /\ refined.lattice \notin Lattices
    /\ structure = refined
    /\ Len(features) > 1
    /\ Len(ReturnedPattern.x) >= 1

\* C18: the intensity |F|^2 of every reflection that passed the filters is
\* below the square of the total electron count; the diagnostic of the bound
\* is printed exactly when a processed reflection violates it, and every
\* processed reflection has its feature row and its place in a peak.
C18_IntensityBelowElectronsSquared ==
    Started =>
        /\ \A p \in Processed :
               /\ Intensity(p.hkl, p.g, zs, coeffs, fcoords, occus) < TotalZ * TotalZ
               /\ \E i \in 2..Len(features) : RowHKL(features[i]) = p.hkl
               /\ PeaksOf(p) # {}
        /\ (MsgIntensity \in Range(printed))
             = (\E p \in Processed :
                    Intensity(p.hkl, p.g, zs, coeffs, fcoords, occus) >= TotalZ * TotalZ)
        /\ SumSeq(zs) = TotalZ

\* the loop is over for a structure of two atoms, and one reflection has
\* the two atoms in phase and another has them out of phase
C18_Witness ==
    /\ Started
    /\ idx > Len(sorted_pts)
    /\ Len(zs) > 1
    /\ \E p, q \in Processed :
           /\ Intensity(p.hkl, p.g, zs, coeffs, fcoords, occus) > 0
           /\ Intensity(q.hkl, q.g, zs, coeffs, fcoords, occus)
                > Intensity(p.hkl, p.g, zs, coeffs, fcoords, occus)
           /\ PhaseFactor(p.hkl, fcoords[2]) = -1
           /\ PhaseFactor(q.hkl, fcoords[2]) = 1

\* position of a key in the order of creation
KeyIndex(k) == CHOOSE i \in 1..Len(two_thetas) : two_thetas[i] = k

\* two theta of the reflection a recorded tuple stands for
TupleTwoTheta(t) == TwoTheta(wavelength, Dist(structure.lattice, TupleHKL(t)))

\* C19: at every point of the loop the keys of the peaks are pairwise at
\* least TWO_THETA_TOL apart, and two_thetas lists them once each in the
\* order of creation.  The reflection that created a peak had no key of an
\* earlier peak within the tolerance; a reflection merged into a peak is
\* within the tolerance of its key and of no key created earlier.
C19_KeysPairwiseApart ==
    Started =>
        /\ \A i, j \in 1..Len(two_thetas) :
               i < j => Abs(two_thetas[i] - two_thetas[j]) >= TWO_THETA_TOL
        /\ Range(two_thetas) = DOMAIN peaks
        /\ \A k \in DOMAIN peaks :
               /\ TupleTwoTheta(peaks[k].hkls[1]) = k
               /\ \A n \in 1..Len(peaks[k].hkls) :
                      LET tt == TupleTwoTheta(peaks[k].hkls[n]) IN
                      /\ n > 1 => Abs(k - tt) < TWO_THETA_TOL
                      /\ \A j \in 1..(KeyIndex(k) - 1) :
                             Abs(two_thetas[j] - tt) >= TWO_THETA_TOL

\* the loop is over: two keys are exactly the tolerance apart, and a third
\* peak holds a merged reflection whose two theta is not the key
C19_Witness ==
    /\ Started
    /\ idx > Len(sorted_pts)
    /\ \E i, j \in 1..Len(two_thetas) : Abs(two_thetas[i] - two_thetas[j]) = TWO_THETA_TOL
    /\ \E k \in DOMAIN peaks : \E n \in 2..Len(peaks[k].hkls) :
           TupleTwoTheta(peaks[k].hkls[n]) # k

\* the three splits have been taken
SplitDone == split_pc = "test"

\* C20: once the three splits are taken, with n the number of rows: train
\* has floor(0.6 n) rows, valid floor(0.2 n) and test the rest; train, valid
\* and test, put one behind the other, are the shuffled dataset, which holds
\* every row of the dataset once; so the splits are pairwise disjoint and
\* their union is the dataset.
C20_SplitsPartitionDataset ==
    SplitDone =>
        LET n == Len(id_prop_all) IN
        /\ 10 * Len(train_data) <= 6 * n /\ 6 * n < 10 * (Len(train_data) + 1)
        /\ 10 * Len(valid_data) <= 2 * n /\ 2 * n < 10 * (Len(valid_data) + 1)
        /\ Len(test_data) = n - Len(train_data) - Len(valid_data)
        /\ train_data \o valid_data \o test_data = id_prop_all
        /\ Range(id_prop_all) = 1..n
        /\ Range(train_data) \cap Range(valid_data) = {}
        /\ Range(train_data) \cap Range(test_data) = {}
        /\ Range(valid_data) \cap Range(test_data) = {}
        /\ Range(train_data) \cup Range(valid_data) \cup Range(test_data) = 1..n
        /\ Cardinality(Range(train_data)) = Len(train_data)
        /\ Cardinality(Range(valid_data)) = Len(valid_data)
        /\ Cardinality(Range(test_data)) = Len(test_data)

\* the splits of a dataset of five rows or more are taken, none of them is
\* empty, and the shuffle has moved the first row
C20_Witness ==
    /\ SplitDone
    /\ Len(id_prop_all) >= 5
    /\ id_prop_all[1] # 1
    /\ train_data # << >>
    /\ valid_data # << >>
    /\ test_data # << >>

\* the feature file of the material the point cloud loop took up last
CurrentFile == FeatFile(SaveOrder[mat_pos])

\* a feature list as the simulator produces it: integer index triples, no
\* triple twice, the origin in the first row only
SimulatorFile(file) ==
    /\ file # << >>
    /\ RowHKL(file[1]) = <<0, 0, 0>>
    /\ \A i \in 1..Len(file) : \A k \in 1..3 : file[i][k] \in Int
    /\ \A i, j \in 1..Len(file) : RowHKL(file[i]) = RowHKL(file[j]) => i = j

\* the rows of a feature list, in their order, whose indices all lie in -b..b
RowsInCube(file, b) == SelectSeq(file, LAMBDA row : \A k \in 1..3 : row[k] \in -b..b)

\* (1,0,0), (0,1,0), (0,0,1)
AxisPoints == { <<1, 0, 0>>, <<0, 1, 0>>, <<0, 0, 1>> }

RowsOnAxes(file) == SelectSeq(file, LAMBDA row : RowHKL(row) \in AxisPoints)

\* C21: for a material the point cloud loop has taken up, whose feature file
\* has distinct integer (h,k,l) rows with the origin once: with npoint = 27,
\* 125, 343 the selected rows are exactly the rows of the file whose three
\* indices all lie in -1..1, -2..2, -3..3, they are at most npoint, and the
\* assertion on their number does not fail; with npoint = 3 the selected
\* rows are exactly the rows (1,0,0), (0,1,0), (0,0,1) of the file, and the
\* assertion of exactly 3 rows fails if and only if one of these three
\* points is not in the file; with any other npoint nothing is selected and
\* NotImplementedError is raised.
C21_PointSelection ==
    (mat_pos >= 1 /\ SimulatorFile(CurrentFile)) =>
        /\ npoint = 27 =>
               /\ selected_hkl_feat = RowsInCube(CurrentFile, 1)
               /\ Len(selected_hkl_feat) <= 27
               /\ split_error # AssertSelectedError
        /\ npoint = 125 =>
               /\ selected_hkl_feat = RowsInCube(CurrentFile, 2)
               /\ Len(selected_hkl_feat) <= 125
               /\ split_error # AssertSelectedError
        /\ npoint = 343 =>
               /\ selected_hkl_feat = RowsInCube(CurrentFile, 3)
               /\ Len(selected_hkl_feat) <= 343
               /\ split_error # AssertSelectedError
        /\ npoint = 3 =>
               /\ selected_hkl_feat = RowsOnAxes(CurrentFile)
               /\ split_error = AssertSelectedError
                      <=> ~(AxisPoints \subseteq { RowHKL(CurrentFile[i]) : i \in 1..Len(CurrentFile) })
               /\ split_error # AssertSelectedError => Len(selected_hkl_feat) = 3
        /\ npoint \notin {3, 27, 125, 343} =>
               /\ split_pc = "failed"
               /\ split_error = NotImplementedError
               /\ selected_hkl_feat = << >>

\* the rows of a file with indices up to 4 have been selected for
\* npoint = 125: the rows with an index beyond 2 are left out, the others
\* are kept, and the count is within the bound
C21_Witness ==
    /\ split_pc = "selected"
    /\ mat_pos >= 1
    /\ npoint = 125
    /\ SimulatorFile(CurrentFile)
    /\ \E i \in 1..Len(CurrentFile) : CurrentFile[i][1] = -MaxHKL
    /\ Len(selected_hkl_feat) < Len(CurrentFile)
    /\ Len(selected_hkl_feat) > 1

====
